---- MODULE Spec2Model ----
(***************************************************************************)
(* kid-audio: the incremental normalise / tag / promote pipeline of        *)
(* bin/prepare_file and the per-directory metadata resolver of             *)
(* lib/metadata.js.                                                        *)
(*                                                                         *)
(* Spec      the pipeline: run(files) over the Tracks of one directory,    *)
(*           with the filesystem (Tracks, cache artifacts, metadata        *)
(*           documents and their modification times) as state, faults of   *)
(*           the external tool / the process, and an environment that      *)
(*           edits Tracks and metadata documents between runs.             *)
(* SpecMeta  the metadata resolver and the tag set builder as functions    *)
(*           of the documents found in the directory ancestry.             *)
(* SpecArt   the pipeline over a directory in which one Track has no        *)
(*           embedded picture.                                             *)
(* SpecStale needsUpdate over the outcomes of fs.stat on its two paths.    *)
(* SpecPaths the cache paths derived from a Track's file name.             *)
(* SpecTool  lib/ffmpeg.js: one call of ffmpeg() and its child's events.   *)
(***************************************************************************)
EXTENDS Integers, Sequences, FiniteSets, TLC

\* ------------------------------------------------------------------ bounds
MaxRuns == 2        \* invocations of run(files)
MaxEdits == 1       \* environment edits (Track bytes, metadata documents)
MaxFaults == 1      \* failed operations (tool exits nonzero, process dies)
MaxVer == 2         \* distinct audio contents a user gives a Track
MaxDocMtime == 2    \* modification times of documents in SpecMeta
MaxNames == 2       \* mp3 files in the directory listing in SpecMeta

\* ---------------------------------------------------------- JS values
\* A JavaScript value is a tagged integer: strings are coded by number.
Str(n) == [t |-> "string", v |-> n]
Num(n) == [t |-> "number", v |-> n]
Date(n) == [t |-> "date", v |-> n]
JsFalse == [t |-> "boolean", v |-> 0]
JsTrue == [t |-> "boolean", v |-> 1]

EmptyObj == [k \in {} |-> Num(0)]

\* An assign in which the keys already present are kept.
ObjectAssignKeepFirst(a, b) ==
  [k \in (DOMAIN a) \cup (DOMAIN b) |-> IF k \in DOMAIN a THEN a[k] ELSE b[k]]

\* Object.assign(a, b): b's keys override a's.
ObjectAssign(a, b) ==
  [k \in (DOMAIN a) \cup (DOMAIN b) |-> IF k \in DOMAIN b THEN b[k] ELSE a[k]]

\* { __mtime: x, ...rest }: every key but `key`.
Omit(obj, key) == [k \in (DOMAIN obj) \ {key} |-> obj[k]]

\* ------------------------------------------------------ directories
\* A directory is its path from the filesystem root, as a sequence of names.
FsRoot == << >>
Cwd == <<"lib">>                 \* process.cwd(): the repository boundary
AlbumDir == <<"lib", "alb">>     \* a directory below the boundary
OutDir == <<"ext">>              \* a directory that is not below the boundary
Dirs == {FsRoot, Cwd, AlbumDir, OutDir}

\* path.dirname(dir); the root is its own parent.
dirname(dir) == IF dir = FsRoot THEN FsRoot ELSE SubSeq(dir, 1, Len(dir) - 1)

IsPrefix(a, b) == Len(a) <= Len(b) /\ SubSeq(b, 1, Len(a)) = a
\* a is a proper ancestor of b
Above(a, b) == IsPrefix(a, b) /\ a # b

NoDoc == [exists |-> FALSE, mtime |-> 0, kv |-> EmptyObj]
Doc(m, kv) == [exists |-> TRUE, mtime |-> m, kv |-> kv]

VARIABLES
  docs,            \* [Dirs -> document]: the .metadata.json of each directory
  clock,           \* the wall clock, in milliseconds
  track,           \* [Tracks -> file]: the Tracks (source mp3 files)
  cache,           \* [Tracks -> [Kinds -> file]]: artifacts in .working
  temp,            \* .working/.temp.mp3
  files,           \* the argument of the current run
  idx,             \* position in files of the Track being processed
  pc,              \* position of the main chain of awaits
  pcOrig,          \* position of createOriginalVersion inside Promise.all
  pcCover,         \* position of extractCoverArt inside Promise.all
  unlinks,         \* unlinks of the final Promise.all still pending
  needToReplaceFile,
  mtime,           \* the __mtime returned by loadMetadataForFile
  err,             \* how the last run ended
  ops,             \* [Tracks -> operations performed for it in this run]
  since,           \* [Tracks -> what happened since it was last processed to the end]
  startSince,      \* [Tracks -> since[t] as it was when processFile(t) began in this run]
  want,            \* [Tracks -> the audio the user last gave the Track]
  runs, edits, faults,   \* how many runs, environment edits, faults so far
  mdFile,          \* SpecMeta: directory and name of the file resolved
  mdListing,       \* SpecMeta: the names found in the file's directory
  mdResult,        \* SpecMeta: what loadMetadataForFile returned
  mdRead,          \* SpecMeta: directories whose document was read
  mdTags,          \* SpecMeta: what getFileMetadata returned
  mdArgs,          \* SpecMeta: keys given to ffmpeg as -metadata
  mdPc,
  nu,              \* SpecStale: a call of needsUpdate, its arguments and outcome
  pth,             \* SpecPaths: a Track's file name and the cache paths derived
  ff               \* SpecTool: a call of ffmpeg(), the child's events, the promise

counters == <<runs, edits, faults>>
pipeVars == <<clock, track, cache, temp, files, idx, pc, pcOrig, pcCover, unlinks,
              needToReplaceFile, mtime, err, ops, since, startSince, want,
              counters>>
fnVars == <<nu, pth, ff>>
metaVars == <<mdFile, mdListing, mdResult, mdRead, mdTags, mdArgs, mdPc, fnVars>>
vars == <<docs, pipeVars, metaVars>>

\* ------------------------------------------------- lib/metadata.js
\* fs.readFile(metadataFile) parsed: undefined / "" give {}.
ParsedDoc(dir) == IF docs[dir].exists THEN docs[dir].kv ELSE EmptyObj

\* The forEach over [metadata.__mtime, stat?.mtime]: the largest one that is
\* not null and > 0; the number 0 when there is none.
MaxMtime(inherited, dir) ==
  LET m0 == Num(0)
      m1 == IF "__mtime" \in DOMAIN inherited /\ inherited["__mtime"].v > m0.v
              THEN inherited["__mtime"] ELSE m0
  IN IF docs[dir].exists /\ docs[dir].mtime > m1.v THEN Date(docs[dir].mtime) ELSE m1

\* Whether the walk goes on to the parent of dir.
WalksUp(dir) == dirname(dir) # dir /\ dir # Cwd

RECURSIVE loadMetadataForDirectory(_)
loadMetadataForDirectory(dir) ==
  LET inherited == IF WalksUp(dir) THEN loadMetadataForDirectory(dirname(dir))
                                   ELSE EmptyObj
  IN ObjectAssign(ObjectAssign(inherited, ParsedDoc(dir)),
                  [k \in {"__mtime"} |-> MaxMtime(inherited, dir)])

\* The directories whose .metadata.json the walk from dir reads and stats.
RECURSIVE DirsRead(_)
DirsRead(dir) == {dir} \cup (IF WalksUp(dir) THEN DirsRead(dirname(dir)) ELSE {})

\* loadMetadataForFile(file), for a file of directory dir.
loadMetadataForFile(dir) == loadMetadataForDirectory(dir)

\* src/lib/metadata.js: the resolver without boundary and without watermark.
libWalksUp(dir) == dirname(dir) # dir

RECURSIVE libLoadMetadataForDirectory(_)
libLoadMetadataForDirectory(dir) ==
  LET inherited == IF libWalksUp(dir) THEN libLoadMetadataForDirectory(dirname(dir))
                                      ELSE EmptyObj
  IN ObjectAssign(inherited, ParsedDoc(dir))

RECURSIVE libDirsRead(_)
libDirsRead(dir) == {dir} \cup (IF libWalksUp(dir) THEN libDirsRead(dirname(dir)) ELSE {})

\* --------------------------------------------- getFileMetadata
\* A directory entry: its stem (names sort by stem) and its suffix.
Mp3(stem) == [stem |-> stem, ext |-> "mp3"]
Names == {Mp3(i) : i \in 1..MaxNames} \cup {[stem |-> 1, ext |-> "txt"]}

\* path.basename(file, ".mp3") as a string value
Title(name) == [t |-> "string", stem |-> name.stem]
\* `${track}/${allFiles.length}`
TrackOf(position, total) == [t |-> "string", position |-> position, total |-> total]

\* readdir(dirname(file)).filter(/\.mp3$/).sort()
AllFiles(listing) == {f \in listing : f.ext = "mp3"}
\* The index findIndex gives, taken as the track number as it is.
FindIndex(name, listing) ==
  IF name \in AllFiles(listing)
    THEN Cardinality({f \in AllFiles(listing) : f.stem < name.stem})
    ELSE 0
\* allFiles.findIndex(f => basename(file) === f) + 1
FindIndexPlus1(name, listing) ==
  IF name \in AllFiles(listing)
    THEN 1 + Cardinality({f \in AllFiles(listing) : f.stem < name.stem})
    ELSE 0

METADATA_KEYS_THAT_ARE_NOT_ID3_TAGS == {"__mtime", "setTrack"}

\* metadata.setTrack !== false
NumberingOn(metadata) ==
  ~("setTrack" \in DOMAIN metadata /\ metadata["setTrack"] = JsFalse)

getFileMetadata(name, listing, metadata) ==
  LET result == ObjectAssign(metadata, [k \in {"title"} |-> Title(name)])
      track1 == FindIndexPlus1(name, listing)
      numbered ==
        IF track1 > 0
          THEN ObjectAssign(result, [k \in {"track"} |->
                                       TrackOf(track1, Cardinality(AllFiles(listing)))])
          ELSE result
      withDisc == IF "disc" \in DOMAIN numbered THEN numbered
                  ELSE ObjectAssign(numbered, [k \in {"disc"} |-> Num(1)])
  IN Omit(IF NumberingOn(metadata) THEN withDisc ELSE result, "setTrack")

\* The -metadata key=value pairs buildFfmpegId3Args emits.
buildFfmpegId3Args(metadata) ==
  [k \in (DOMAIN metadata) \ METADATA_KEYS_THAT_ARE_NOT_ID3_TAGS |-> metadata[k]]

\* ------------------------------------------------------------ files
\* A file: whether it exists, the audio it derives from (src), what was done
\* to it (stage), the tag set stamped on it (tags: the watermark of the
\* metadata it was resolved from), whether it was written to its end (whole),
\* and its modification time.
Absent == [exists |-> FALSE, src |-> 0, stage |-> "none", tags |-> 0,
           whole |-> FALSE, mtime |-> 0]
RawAudio(v, m) == [exists |-> TRUE, src |-> v, stage |-> "raw", tags |-> 0,
                   whole |-> TRUE, mtime |-> m]

\* The audio of a file that carries no embedded picture (no video stream).
NoArt == 0
HasArt(f) == f.src # NoArt

\* A writer that has opened its output and not yet finished it.
Partial(from, stage, m) ==
  [from EXCEPT !.exists = TRUE, !.stage = stage, !.whole = FALSE, !.mtime = m]
\* The finished output of a writer reading `from`.
Output(from, stage, m) == [from EXCEPT !.exists = TRUE, !.stage = stage, !.mtime = m]

Tracks == {"t1", "t2"}          \* AlbumDir/t1.mp3, AlbumDir/t2.mp3
TrackDir == AlbumDir
Kinds == {"original", "cover", "wav", "nwav", "normalized"}
\* The argument lists tried: the two Tracks, and a path that is not an mp3
\* ahead of a Track.
RunLists == {<<"t1", "t2">>, <<"notes.txt", "t2">>}
\* /\.mp3$/.test(file)
IsMp3(file) == file \in Tracks

cur == files[idx]

\* Operations of doNormalization, as logged in ops.
NormOps == {"backup", "cover", "wav", "pass1", "pass2", "encode", "unlink"}

\* Date.now() and the filesystem's clock move on.
Tick == clock' = clock + 1

Log(name) == ops' = [ops EXCEPT ![cur] = @ \cup {name}]
Put(kind, f) == cache' = [cache EXCEPT ![cur][kind] = f]

\* ------------------------------------------------------ needsUpdate
\* What fs.stat(path) gives: a Stats object with its mtime, or an error code.
StatOf(f) == [code |-> IF f.exists THEN "ok" ELSE "ENOENT", mtime |-> f.mtime]

\* The reference as the code sees it: a path (typeof === "string") with what
\* fs.stat finds there, or the value handed in.
PathRef(stat) == [t |-> "string", stat |-> stat]
ValueRef(val) == [t |-> val.t, v |-> val.v]

\* A comparison in which an equal modification time counts as stale.
needsUpdateNotLater(file, destFileOrMTime) ==
  LET d == destFileOrMTime
      ref == IF d.t = "string" THEN d.stat.mtime ELSE d.v
  IN IF d.t = "string" /\ d.stat.code = "ENOENT" THEN "true"
     ELSE IF d.t = "string" /\ d.stat.code # "ok" THEN d.stat.code
     ELSE IF d.t \notin {"string", "date"} THEN "throw"
     ELSE IF file.code \notin {"ok", "ENOENT"} THEN file.code
     ELSE IF file.code = "ENOENT" \/ file.mtime <= ref THEN "true"
     ELSE "false"

\* needsUpdate, with `file` as fs.stat finds it: "true", "false", "throw" for
\* Error("Invalid argument"), or the code of the stat error it rethrows.
needsUpdate(file, destFileOrMTime) ==
  LET d == destFileOrMTime
      ref == IF d.t = "string" THEN d.stat.mtime ELSE d.v
  IN IF d.t = "string" /\ d.stat.code = "ENOENT" THEN "true"
     ELSE IF d.t = "string" /\ d.stat.code # "ok" THEN d.stat.code
     ELSE IF d.t \notin {"string", "date"} THEN "throw"
     ELSE IF file.code \notin {"ok", "ENOENT"} THEN file.code
     ELSE IF file.code = "ENOENT" \/ file.mtime < ref THEN "true"
     ELSE "false"

\* fs.utimes(path, Date.now(), Date.now()): a number given to fs.utimes is a
\* time in seconds, Date.now() is a time in milliseconds.
MsPerSecond == 1000
UtimesMtime(now) == now * MsPerSecond
\* A promotion that leaves the cached artifact's times alone.
UtimesSkipped(f, now) == f
\* The file after fs.utimes(file, now, now).
Utimed(f, now) == [f EXCEPT !.mtime = UtimesMtime(now)]

\* processFile line 219
NormalizedStale(t) == needsUpdate(StatOf(cache[t]["normalized"]), PathRef(StatOf(track[t])))
\* The watermark compared with the cached artifact instead of the Track.
MetadataStaleOfCache(t) == needsUpdate(StatOf(cache[t]["normalized"]), ValueRef(mtime))
\* processFile line 228, right operand
MetadataStale(t) == needsUpdate(StatOf(track[t]), ValueRef(mtime))

\* A createOriginalVersion that does not look for the backup first.
BackupNeverPresent(t) == FALSE
\* createOriginalVersion: stat(originalFile).isFile()
BackupPresent(t) == cache[t]["original"].exists
\* isFile(file)
isFile(f) == f.exists

\* ------------------------------------------------------------- Init
MetaIdle ==
  /\ mdFile = [dir |-> AlbumDir, name |-> 0]
  /\ mdListing = {}
  /\ mdResult = EmptyObj
  /\ mdRead = {}
  /\ mdTags = EmptyObj
  /\ mdArgs = EmptyObj
  /\ mdPc = "off"

NuIdle == nu = [pc |-> "off"]
PthIdle == pth = [pc |-> "off"]
FfIdle == ff = [pc |-> "off"]

\* No run is going on.
Idle ==
  /\ files = <<"t2">>
  /\ idx = 1
  /\ pc = "idle"
  /\ pcOrig = "none"
  /\ pcCover = "none"
  /\ unlinks = {}
  /\ needToReplaceFile = FALSE
  /\ mtime = Num(0)
  /\ err = "none"
  /\ ops = [t \in Tracks |-> {}]
  /\ startSince = [t \in Tracks |-> "notyet"]

\* Two raw Tracks, nothing cached, no run yet.
PipeInit ==
  /\ clock = 1
  /\ track = [t \in Tracks |-> RawAudio(1, 1)]
  /\ cache = [t \in Tracks |-> [k \in Kinds |-> Absent]]
  /\ temp = Absent
  /\ Idle
  /\ since = [t \in Tracks |-> "never"]
  /\ want = [t \in Tracks |-> 1]
  /\ runs = 0
  /\ edits = 0
  /\ faults = 0

Init ==
  /\ \E present \in SUBSET {Cwd, AlbumDir} :
       docs = [d \in Dirs |-> IF d \in present THEN Doc(1, EmptyObj) ELSE NoDoc]
  /\ PipeInit
  /\ MetaIdle
  /\ NuIdle /\ PthIdle /\ FfIdle

\* ------------------------------------------------------ environment
\* The user replaces the audio of a Track.
ModifyTrack(t, v) ==
  /\ pc = "idle" /\ edits < MaxEdits /\ v # want[t]
  /\ edits' = edits + 1
  /\ track' = [track EXCEPT ![t] = RawAudio(v, clock + 1)]
  /\ want' = [want EXCEPT ![t] = v]
  /\ since' = [since EXCEPT ![t] = "dirty"]
  /\ Tick
  /\ UNCHANGED <<docs, cache, temp, files, idx, pc, pcOrig, pcCover, unlinks,
                 needToReplaceFile, mtime, err, ops, startSince, runs,
                 faults, metaVars>>

\* The user saves a metadata document again: only its mtime changes.
TouchDoc(d) ==
  /\ pc = "idle" /\ edits < MaxEdits /\ docs[d].exists
  /\ edits' = edits + 1
  /\ docs' = [docs EXCEPT ![d].mtime = clock + 1]
  /\ since' = [t \in Tracks |-> IF since[t] \in {"clean", "touched"} THEN "touched"
                                ELSE since[t]]
  /\ Tick
  /\ UNCHANGED <<track, cache, temp, files, idx, pc, pcOrig, pcCover, unlinks,
                 needToReplaceFile, mtime, err, ops, startSince, want,
                 runs, faults, metaVars>>

\* -------------------------------------------------------------- run
Run(list) ==
  /\ pc = "idle" /\ runs < MaxRuns
  /\ runs' = runs + 1
  /\ files' = list
  /\ idx' = 1
  /\ pc' = "processFile"
  /\ err' = "none"
  /\ ops' = [t \in Tracks |-> {}]
  /\ UNCHANGED <<docs, clock, track, cache, temp, pcOrig, pcCover, unlinks,
                 needToReplaceFile, mtime, since, startSince, want,
                 edits, faults, metaVars>>

\* A rejection after which run() goes on with the next file.
AbortAndGoOn(how) ==
  /\ pc' = "next"
  /\ err' = how

\* A rejected await: the chain of run() stops and nothing further is started.
Abort(how) ==
  /\ pc' = "ended"
  /\ err' = how

\* processFile up to the first needsUpdate (lines 204-224).
ProcessFile ==
  /\ pc = "processFile"
  /\ IF ~IsMp3(cur)
       THEN /\ Abort("Not an MP3 file")
            /\ UNCHANGED <<needToReplaceFile, startSince, since>>
       ELSE /\ needToReplaceFile' = FALSE
            /\ startSince' = [startSince EXCEPT ![cur] = since[cur]]
            /\ since' = [since EXCEPT ![cur] = "dirty"]
            /\ pc' = IF NormalizedStale(cur) = "true" THEN "doNormalization"
                     ELSE "loadMetadata"
            /\ UNCHANGED err
  /\ UNCHANGED <<docs, clock, track, cache, temp, files, idx, pcOrig, pcCover, unlinks,
                 mtime, ops, want, counters, metaVars>>

\* doNormalization: Promise.all([createOriginalVersion, extractCoverArt]).
DoNormalization ==
  /\ pc = "doNormalization"
  /\ pc' = "join"
  /\ pcOrig' = "stat"
  /\ pcCover' = "spawn"
  /\ UNCHANGED <<docs, clock, track, cache, temp, files, idx, unlinks,
                 needToReplaceFile, mtime, err, ops, since, startSince, want,
                 counters, metaVars>>

\* createOriginalVersion: return if the backup is there, else start the copy.
OrigStat ==
  /\ pcOrig = "stat"
  /\ IF BackupPresent(cur)
       THEN /\ pcOrig' = "done"
            /\ UNCHANGED <<cache, ops>>
       ELSE /\ pcOrig' = "copy"
            /\ Put("original", Partial(track[cur], track[cur].stage, 0))
            /\ Log("backup")
  /\ UNCHANGED <<docs, clock, track, temp, files, idx, pc, pcCover, unlinks,
                 needToReplaceFile, mtime, err, since, startSince, want,
                 counters, metaVars>>

OrigCopied ==
  /\ pcOrig = "copy"
  /\ pcOrig' = "done"
  /\ Put("original", Output(track[cur], track[cur].stage, 0))
  /\ UNCHANGED <<docs, clock, track, temp, files, idx, pc, pcCover, unlinks,
                 needToReplaceFile, mtime, err, ops, since, startSince, want,
                 counters, metaVars>>

\* extractCoverArt: ffmpeg -i file -an -c:v copy -y coverArtFile.
CoverSpawn ==
  /\ pcCover = "spawn"
  /\ pcCover' = "running"
  /\ Put("cover", IF HasArt(track[cur]) THEN Partial(track[cur], "cover", 0)
                  ELSE cache[cur]["cover"])
  /\ Log("cover")
  /\ UNCHANGED <<docs, clock, track, temp, files, idx, pc, pcOrig, unlinks,
                 needToReplaceFile, mtime, err, since, startSince, want,
                 counters, metaVars>>

\* The tool ends. From an input without picture it has no stream to write: it
\* writes no file, and exits nonzero or, for all this program knows, with 0.
CoverExit ==
  /\ pcCover = "running"
  /\ IF HasArt(track[cur])
       THEN /\ pcCover' = "done"
            /\ Put("cover", Output(track[cur], "cover", 0))
       ELSE /\ pcCover' \in {"failed", "done"}
            /\ UNCHANGED cache
  /\ UNCHANGED <<docs, clock, track, temp, files, idx, pc, pcOrig, unlinks,
                 needToReplaceFile, mtime, err, ops, since, startSince, want,
                 counters, metaVars>>

\* One of the two concurrent operations fails; the other one goes on.
OrigFault ==
  /\ pcOrig = "copy" /\ faults < MaxFaults
  /\ faults' = faults + 1
  /\ pcOrig' = "failed"
  /\ UNCHANGED <<docs, clock, track, cache, temp, files, idx, pc, pcCover, unlinks,
                 needToReplaceFile, mtime, err, ops, since, startSince, want, runs,
                 edits, metaVars>>

CoverFault ==
  /\ pcCover = "running" /\ faults < MaxFaults
  /\ faults' = faults + 1
  /\ pcCover' = "failed"
  /\ UNCHANGED <<docs, clock, track, cache, temp, files, idx, pc, pcOrig, unlinks,
                 needToReplaceFile, mtime, err, ops, since, startSince, want, runs,
                 edits, metaVars>>

\* Both operations of the Promise.all have settled.
Join ==
  /\ pc = "join"
  /\ pcOrig \in {"done", "failed"} /\ pcCover \in {"done", "failed"}
  /\ pcOrig' = "none" /\ pcCover' = "none"
  /\ IF pcOrig = "done" /\ pcCover = "done"
       THEN pc' = "createWavVersion" /\ UNCHANGED err
       ELSE Abort("fault")
  /\ UNCHANGED <<docs, clock, track, cache, temp, files, idx, unlinks,
                 needToReplaceFile, mtime, ops, since, startSince, want,
                 counters, metaVars>>

\* createWavVersion: an existing .wav is used as it is.
CreateWavVersion ==
  /\ pc = "createWavVersion"
  /\ IF isFile(cache[cur]["wav"])
       THEN /\ pc' = "normalizeWavFile"
            /\ UNCHANGED <<cache, ops>>
       ELSE /\ pc' = "wavRunning"
            /\ Put("wav", Partial(track[cur], "wav", 0))
            /\ Log("wav")
  /\ UNCHANGED <<docs, clock, track, temp, files, idx, pcOrig, pcCover, unlinks,
                 needToReplaceFile, mtime, err, since, startSince, want,
                 counters, metaVars>>

WavExit ==
  /\ pc = "wavRunning"
  /\ pc' = "normalizeWavFile"
  /\ Put("wav", Output(track[cur], "wav", 0))
  /\ UNCHANGED <<docs, clock, track, temp, files, idx, pcOrig, pcCover, unlinks,
                 needToReplaceFile, mtime, err, ops, since, startSince, want,
                 counters, metaVars>>

\* normalizeWavFile: an existing .normalized.wav is used as it is; else
\* ffmpegNormalize starts its first (measuring) pass, which writes nothing.
NormalizeWavFile ==
  /\ pc = "normalizeWavFile"
  /\ IF isFile(cache[cur]["nwav"])
       THEN pc' = "encode" /\ UNCHANGED ops
       ELSE pc' = "pass1Running" /\ Log("pass1")
  /\ UNCHANGED <<docs, clock, track, cache, temp, files, idx, pcOrig, pcCover, unlinks,
                 needToReplaceFile, mtime, err, since, startSince, want,
                 counters, metaVars>>

\* Pass 1 exits with 0; pass 2 is spawned with -y on the .normalized.wav.
Pass1Exit ==
  /\ pc = "pass1Running"
  /\ pc' = "pass2Running"
  /\ Put("nwav", Partial(cache[cur]["wav"], "nwav", 0))
  /\ Log("pass2")
  /\ UNCHANGED <<docs, clock, track, temp, files, idx, pcOrig, pcCover, unlinks,
                 needToReplaceFile, mtime, err, since, startSince, want,
                 counters, metaVars>>

Pass2Exit ==
  /\ pc = "pass2Running"
  /\ pc' = "encode"
  /\ Put("nwav", Output(cache[cur]["wav"], "nwav", 0))
  /\ UNCHANGED <<docs, clock, track, temp, files, idx, pcOrig, pcCover, unlinks,
                 needToReplaceFile, mtime, err, ops, since, startSince, want,
                 counters, metaVars>>

\* ffmpegWavToMp3(normalizedWavFile, normalizedMp3File), with -y.
EncodeSpawn ==
  /\ pc = "encode"
  /\ pc' = "encodeRunning"
  /\ Put("normalized", [Partial(cache[cur]["nwav"], "norm", clock) EXCEPT !.tags = 0])
  /\ Log("encode")
  /\ UNCHANGED <<docs, clock, track, temp, files, idx, pcOrig, pcCover, unlinks,
                 needToReplaceFile, mtime, err, since, startSince, want,
                 counters, metaVars>>

EncodeExit ==
  /\ pc = "encodeRunning"
  /\ pc' = "unlink"
  /\ unlinks' = {"wav", "nwav"}
  /\ Put("normalized", [Output(cache[cur]["nwav"], "norm", clock + 1) EXCEPT !.tags = 0])
  /\ Tick
  /\ UNCHANGED <<docs, track, temp, files, idx, pcOrig, pcCover,
                 needToReplaceFile, mtime, err, ops, since, startSince, want,
                 counters, metaVars>>

\* Promise.all([fs.unlink(wavFile), fs.unlink(normalizedWavFile)])
Unlink(k) ==
  /\ pc = "unlink" /\ k \in unlinks
  /\ unlinks' = unlinks \ {k}
  /\ Put(k, Absent)
  /\ Log("unlink")
  /\ UNCHANGED <<docs, clock, track, temp, files, idx, pc, pcOrig, pcCover,
                 needToReplaceFile, mtime, err, since, startSince, want,
                 counters, metaVars>>

\* doNormalization returns: needToReplaceFile = true (line 223).
Normalized ==
  /\ pc = "unlink" /\ unlinks = {}
  /\ needToReplaceFile' = TRUE
  /\ pc' = "loadMetadata"
  /\ UNCHANGED <<docs, clock, track, cache, temp, files, idx, pcOrig, pcCover, unlinks,
                 mtime, err, ops, since, startSince, want,
                 counters, metaVars>>

\* const { __mtime: mtime, ...metadata } = await loadMetadataForFile(file)
LoadMetadata ==
  /\ pc = "loadMetadata"
  /\ mtime' = loadMetadataForFile(TrackDir)["__mtime"]
  /\ pc' = "decide"
  /\ UNCHANGED <<docs, clock, track, cache, temp, files, idx, pcOrig, pcCover, unlinks,
                 needToReplaceFile, err, ops, since, startSince, want,
                 counters, metaVars>>

\* if (needToReplaceFile || (await needsUpdate(file, mtime)))
Decide ==
  /\ pc = "decide"
  /\ LET stale == IF needToReplaceFile THEN "true" ELSE MetadataStale(cur)
     IN IF stale = "throw" THEN Abort("Invalid argument")
        ELSE /\ pc' = IF stale = "true" THEN "tag" ELSE "replace"
             /\ UNCHANGED err
  /\ UNCHANGED <<docs, clock, track, cache, temp, files, idx, pcOrig, pcCover, unlinks,
                 needToReplaceFile, mtime, ops, since, startSince, want,
                 counters, metaVars>>

\* A first pass that writes onto the file it reads.
TagSpawnInPlace ==
  /\ pc = "tag"
  /\ pc' = "tagRunning"
  /\ temp' = [Partial(cache[cur]["normalized"], "tagged", clock) EXCEPT !.tags = mtime.v]
  /\ Put("normalized", temp')
  /\ Log("tag")
  /\ UNCHANGED <<docs, clock, track, files, idx, pcOrig, pcCover, unlinks,
                 needToReplaceFile, mtime, err, since, startSince, want,
                 counters, metaVars>>

\* updateFileMetadata, first pass: ffmpeg -y -i file -metadata ... .temp.mp3
TagSpawn ==
  /\ pc = "tag"
  /\ pc' = "tagRunning"
  /\ temp' = [Partial(cache[cur]["normalized"], "tagged", clock) EXCEPT !.tags = mtime.v]
  /\ Log("tag")
  /\ UNCHANGED <<docs, clock, track, cache, files, idx, pcOrig, pcCover, unlinks,
                 needToReplaceFile, mtime, err, since, startSince, want,
                 counters, metaVars>>

TagExit ==
  /\ pc = "tagRunning"
  /\ pc' = "tagRename"
  /\ temp' = [Output(cache[cur]["normalized"], "tagged", clock + 1) EXCEPT !.tags = mtime.v]
  /\ Tick
  /\ UNCHANGED <<docs, track, cache, files, idx, pcOrig, pcCover, unlinks,
                 needToReplaceFile, mtime, err, ops, since, startSince, want,
                 counters, metaVars>>

\* fs.rename(outputFile, file), after either pass.
Rename(at, next) ==
  /\ pc = at
  /\ pc' = next
  /\ Put("normalized", temp)
  /\ temp' = Absent
  /\ Log("rename")
  /\ UNCHANGED <<docs, clock, track, files, idx, pcOrig, pcCover, unlinks,
                 needToReplaceFile, mtime, err, since, startSince, want,
                 counters, metaVars>>

\* updateFileMetadata, second pass: the cover image is multiplexed in.
MuxSpawn ==
  /\ pc = "mux"
  /\ pc' = "muxRunning"
  /\ temp' = IF cache[cur]["cover"].exists
               THEN Partial(cache[cur]["normalized"], "final", clock)
               ELSE temp
  /\ Log("mux")
  /\ UNCHANGED <<docs, clock, track, cache, files, idx, pcOrig, pcCover, unlinks,
                 needToReplaceFile, mtime, err, since, startSince, want,
                 counters, metaVars>>

\* The tool ends; it cannot open an input that does not exist.
MuxExit ==
  /\ pc = "muxRunning"
  /\ IF cache[cur]["cover"].exists
       THEN /\ pc' = "muxRename"
            /\ temp' = Output(cache[cur]["normalized"], "final", clock + 1)
            /\ Tick
            /\ UNCHANGED err
       ELSE /\ Abort("fault")
            /\ UNCHANGED <<temp, clock>>
  /\ UNCHANGED <<docs, track, cache, files, idx, pcOrig, pcCover, unlinks,
                 needToReplaceFile, mtime, ops, since, startSince, want,
                 counters, metaVars>>

\* updateFileMetadata returns: needToReplaceFile = true (line 233).
Tagged ==
  /\ pc = "tagged"
  /\ needToReplaceFile' = TRUE
  /\ pc' = "replace"
  /\ UNCHANGED <<docs, clock, track, cache, temp, files, idx, pcOrig, pcCover, unlinks,
                 mtime, err, ops, since, startSince, want,
                 counters, metaVars>>

\* if (needToReplaceFile) fs.copyFile(normalizedFile, file): the copy opens
\* the Track's own path for writing.
Replace ==
  /\ pc = "replace"
  /\ IF needToReplaceFile
       THEN /\ pc' = "copying"
            /\ track' = [track EXCEPT ![cur] =
                 Partial(cache[cur]["normalized"], cache[cur]["normalized"].stage, clock + 1)]
            /\ Tick
            /\ Log("promote")
       ELSE /\ pc' = "next"
            /\ UNCHANGED <<track, clock, ops>>
  /\ UNCHANGED <<docs, cache, temp, files, idx, pcOrig, pcCover, unlinks,
                 needToReplaceFile, mtime, err, since, startSince, want,
                 counters, metaVars>>

Copied ==
  /\ pc = "copying"
  /\ pc' = "utimes"
  /\ track' = [track EXCEPT ![cur] =
       Output(cache[cur]["normalized"], cache[cur]["normalized"].stage, clock + 1)]
  /\ Tick
  /\ UNCHANGED <<docs, cache, temp, files, idx, pcOrig, pcCover, unlinks,
                 needToReplaceFile, mtime, err, ops, since, startSince, want,
                 counters, metaVars>>

\* fs.utimes(normalizedFile, Date.now(), Date.now())
Utimes ==
  /\ pc = "utimes"
  /\ pc' = "next"
  /\ Put("normalized", Utimed(cache[cur]["normalized"], clock + 1))
  /\ Tick
  /\ Log("utimes")
  /\ UNCHANGED <<docs, track, temp, files, idx, pcOrig, pcCover, unlinks,
                 needToReplaceFile, mtime, err, since, startSince, want,
                 counters, metaVars>>

\* processFile resolves; run() goes on to the next file, or resolves.
NextFile ==
  /\ pc = "next"
  /\ since' = [since EXCEPT ![cur] = "clean"]
  /\ IF idx < Len(files)
       THEN idx' = idx + 1 /\ pc' = "processFile"
       ELSE idx' = idx /\ pc' = "ended"
  /\ UNCHANGED <<docs, clock, track, cache, temp, files, pcOrig, pcCover, unlinks,
                 needToReplaceFile, mtime, err, ops, startSince, want,
                 counters, metaVars>>

\* The promise of run() has settled and the process exits.
Exit ==
  /\ pc = "ended"
  /\ files' = <<"t2">>
  /\ idx' = 1
  /\ pc' = "idle"
  /\ pcOrig' = "none"
  /\ pcCover' = "none"
  /\ unlinks' = {}
  /\ needToReplaceFile' = FALSE
  /\ mtime' = Num(0)
  /\ err' = "none"
  /\ ops' = [t \in Tracks |-> {}]
  /\ startSince' = [t \in Tracks |-> "notyet"]
  /\ UNCHANGED <<docs, clock, track, cache, temp, since, want, runs, edits, faults,
                 metaVars>>

\* The operation in flight fails (the tool exits nonzero, the filesystem
\* refuses, the process is killed): what it has written so far stays.
FaultPoints == {"wavRunning", "pass1Running", "pass2Running", "encodeRunning",
                "tagRunning", "muxRunning", "copying", "utimes"}

Fault ==
  /\ pc \in FaultPoints /\ faults < MaxFaults
  /\ faults' = faults + 1
  /\ Abort("fault")
  /\ UNCHANGED <<docs, clock, track, cache, temp, files, idx, pcOrig, pcCover, unlinks,
                 needToReplaceFile, mtime, ops, since, startSince, want,
                 runs, edits, metaVars>>

Next ==
  \/ \E t \in Tracks, v \in 1..MaxVer : ModifyTrack(t, v)
  \/ \E d \in Dirs : TouchDoc(d)
  \/ \E list \in RunLists : Run(list)
  \/ ProcessFile
  \/ DoNormalization
  \/ OrigStat
  \/ OrigCopied
  \/ CoverSpawn
  \/ CoverExit
  \/ OrigFault
  \/ CoverFault
  \/ Join
  \/ CreateWavVersion
  \/ WavExit
  \/ NormalizeWavFile
  \/ Pass1Exit
  \/ Pass2Exit
  \/ EncodeSpawn
  \/ EncodeExit
  \/ \E k \in {"wav", "nwav"} : Unlink(k)
  \/ Normalized
  \/ LoadMetadata
  \/ Decide
  \/ TagSpawn
  \/ TagExit
  \/ Rename("tagRename", "mux")
  \/ MuxSpawn
  \/ MuxExit
  \/ Rename("muxRename", "tagged")
  \/ Tagged
  \/ Replace
  \/ Copied
  \/ Utimes
  \/ NextFile
  \/ Exit
  \/ Fault

Spec == Init /\ [][Next]_vars

\* ================================================================ SpecArt
\* The pipeline over a directory whose second Track has no embedded picture.
InitArt ==
  /\ \E present \in SUBSET {Cwd, AlbumDir} :
       docs = [d \in Dirs |-> IF d \in present THEN Doc(1, EmptyObj) ELSE NoDoc]
  /\ clock = 1
  /\ track = [t \in Tracks |-> RawAudio(IF t = "t2" THEN NoArt ELSE 1, 1)]
  /\ cache = [t \in Tracks |-> [k \in Kinds |-> Absent]]
  /\ temp = Absent
  /\ Idle
  /\ since = [t \in Tracks |-> "never"]
  /\ want = [t \in Tracks |-> IF t = "t2" THEN NoArt ELSE 1]
  /\ runs = 0
  /\ edits = 0
  /\ faults = 0
  /\ MetaIdle
  /\ NuIdle /\ PthIdle /\ FfIdle

SpecArt == InitArt /\ [][Next]_vars

\* =============================================================== SpecMeta
\* The resolver and the tag builder over the documents of the ancestry.
DocKeyValues == [artist |-> {Str(1), Str(2)},
                 track |-> {Str(9)},
                 title |-> {Str(8)},
                 disc |-> {Num(2)},
                 setTrack |-> {JsFalse, JsTrue},
                 __mtime |-> {Str(7)}]
DocKeys == DOMAIN DocKeyValues
\* The documents tried: up to two keys each.
DocChoices ==
  UNION {{kv \in [ks -> UNION {DocKeyValues[k] : k \in ks}] :
            \A k \in ks : kv[k] \in DocKeyValues[k]} :
         ks \in {x \in SUBSET DocKeys : Cardinality(x) <= 2}}
DocsTried == {NoDoc} \cup {Doc(m, kv) : m \in 1..MaxDocMtime, kv \in DocChoices}
RootDoc == Doc(1, [k \in {"artist"} |-> Str(3)])

InitMeta ==
  /\ \E c \in DocsTried, a \in DocsTried, r \in {NoDoc, RootDoc} :
       docs = [d \in Dirs |-> IF d = Cwd THEN c ELSE IF d = AlbumDir THEN a
                              ELSE IF d = FsRoot THEN r ELSE NoDoc]
  /\ \E dir \in {AlbumDir, OutDir} : mdFile = [dir |-> dir, name |-> 0]
  /\ mdListing = {}
  /\ mdResult = EmptyObj
  /\ mdRead = {}
  /\ mdTags = EmptyObj
  /\ mdArgs = EmptyObj
  /\ mdPc = "start"
  /\ PipeInit
  /\ NuIdle /\ PthIdle /\ FfIdle

\* loadMetadataForFile(file) of bin/prepare_file's lib/metadata.js
Resolve ==
  /\ mdPc = "start"
  /\ mdResult' = loadMetadataForFile(mdFile.dir)
  /\ mdRead' = DirsRead(mdFile.dir)
  /\ mdPc' = "resolved"
  /\ UNCHANGED <<docs, pipeVars, mdFile, mdListing, mdTags, mdArgs, fnVars>>

\* loadMetadataForDirectory(dir) of src/lib/metadata.js
ResolveLib ==
  /\ mdPc = "start"
  /\ mdResult' = libLoadMetadataForDirectory(mdFile.dir)
  /\ mdRead' = libDirsRead(mdFile.dir)
  /\ mdPc' = "resolvedLib"
  /\ UNCHANGED <<docs, pipeVars, mdFile, mdListing, mdTags, mdArgs, fnVars>>

\* processFile lines 226-231: the watermark is split off, the rest goes to
\* getFileMetadata together with the directory's listing.
GetFileMetadata(stem, listing) ==
  /\ mdPc = "resolved"
  /\ Mp3(stem) \in listing
  /\ mdFile' = [mdFile EXCEPT !.name = stem]
  /\ mdListing' = listing
  /\ mdTags' = getFileMetadata(Mp3(stem), listing, Omit(mdResult, "__mtime"))
  /\ mdPc' = "tags"
  /\ UNCHANGED <<docs, pipeVars, mdResult, mdRead, mdArgs, fnVars>>

\* updateFileMetadata line 448
BuildFfmpegId3Args ==
  /\ mdPc = "tags"
  /\ mdArgs' = buildFfmpegId3Args(mdTags)
  /\ mdPc' = "args"
  /\ UNCHANGED <<docs, pipeVars, mdFile, mdListing, mdResult, mdRead, mdTags, fnVars>>

NextMeta ==
  \/ Resolve
  \/ ResolveLib
  \/ \E stem \in 1..MaxNames, listing \in SUBSET Names : GetFileMetadata(stem, listing)
  \/ BuildFfmpegId3Args

SpecMeta == InitMeta /\ [][NextMeta]_vars

\* ============================================================== SpecStale
\* needsUpdate over what fs.stat can find at the two paths.
MaxStatMtime == 3
NoDocs == docs = [d \in Dirs |-> NoDoc]
Stats == {[code |-> "ok", mtime |-> m] : m \in 0..MaxStatMtime}
           \cup {[code |-> c, mtime |-> 0] : c \in {"ENOENT", "EACCES"}}
Refs == {PathRef(st) : st \in Stats}
          \cup {ValueRef(Date(m)) : m \in 0..MaxStatMtime}
          \cup {ValueRef(Num(0))}

InitStale ==
  /\ \E file \in Stats, dest \in Refs :
       nu = [pc |-> "call", file |-> file, dest |-> dest, out |-> "none"]
  /\ NoDocs /\ PipeInit /\ MetaIdle /\ PthIdle /\ FfIdle

NeedsUpdate ==
  /\ nu.pc = "call"
  /\ nu' = [nu EXCEPT !.pc = "done", !.out = needsUpdate(nu.file, nu.dest)]
  /\ UNCHANGED <<docs, pipeVars, mdFile, mdListing, mdResult, mdRead, mdTags, mdArgs,
                 mdPc, pth, ff>>

SpecStale == InitStale /\ [][NeedsUpdate]_vars

\* ============================================================== SpecPaths
\* A file name is the sequence of its pieces between dots: "a.b.mp3" is
\* <<"a", "b", "mp3">>.  The directory part (dirname, WORKING_DIR) is the same
\* in every path derived and left out.
MaxPieces == 3
Pieces == {"a", "b", "c"}
Stems == UNION {[1..n -> Pieces] : n \in 1..MaxPieces}
TrackNames == {stem \o <<"mp3">> : stem \in Stems}

\* name.replace(/\.ext$/, suffix), suffix given with its pieces
ReplaceExt(name, ext, suffix) ==
  IF Len(name) > 1 /\ name[Len(name)] = ext
    THEN SubSeq(name, 1, Len(name) - 1) \o suffix
    ELSE name
\* name.replace(/\..*$/, suffix) and name.replace(/\..+/, suffix): from the
\* first dot on
ReplaceFromFirstDot(name, suffix) ==
  IF Len(name) > 1 THEN <<Head(name)>> \o suffix ELSE name
\* path.basename(file, ".mp3")
Basename(name, ext) == ReplaceExt(name, ext, << >>)

\* processFile lines 211-215
normalizedFile(name) == Basename(name, "mp3") \o <<"normalized", "mp3">>
\* createOriginalVersion lines 282-286
originalFile(name) == ReplaceExt(name, "mp3", <<"original", "mp3">>)
\* createWavVersion lines 309-313
wavFile(name) == ReplaceFromFirstDot(name, <<"wav">>)
\* normalizeWavFile line 351
normalizedWavFile(wav) == ReplaceExt(wav, "wav", <<"normalized", "wav">>)
\* doNormalization line 268
normalizedMp3File(nwav) == ReplaceExt(nwav, "wav", <<"mp3">>)
\* extractCoverArt lines 332-336
coverArtFile(name) == ReplaceFromFirstDot(name, <<"cover", "png">>)
\* updateFileMetadata lines 454-457, file being the normalized artifact
coverArtFileOf(file) == ReplaceFromFirstDot(file, <<"cover", "png">>)

InitPaths ==
  /\ \E name \in TrackNames : pth = [pc |-> "processFile", name |-> name]
  /\ NoDocs /\ PipeInit /\ MetaIdle /\ NuIdle /\ FfIdle

PathStep(at, next, field, value) ==
  /\ pth.pc = at
  /\ pth' = [k \in DOMAIN pth \cup {field} |->
               IF k = "pc" THEN next ELSE IF k = field THEN value ELSE pth[k]]
  /\ UNCHANGED <<docs, pipeVars, mdFile, mdListing, mdResult, mdRead, mdTags, mdArgs,
                 mdPc, nu, ff>>

NextPaths ==
  \/ PathStep("processFile", "createOriginalVersion", "normalizedFile",
              normalizedFile(pth.name))
  \/ PathStep("createOriginalVersion", "extractCoverArt", "originalFile",
              originalFile(pth.name))
  \/ PathStep("extractCoverArt", "createWavVersion", "coverArtFile",
              coverArtFile(pth.name))
  \/ PathStep("createWavVersion", "normalizeWavFile", "wavFile", wavFile(pth.name))
  \/ PathStep("normalizeWavFile", "doNormalization", "normalizedWavFile",
              normalizedWavFile(pth.wavFile))
  \/ PathStep("doNormalization", "updateFileMetadata", "normalizedMp3File",
              normalizedMp3File(pth.normalizedWavFile))
  \/ PathStep("updateFileMetadata", "done", "coverArtFileRead",
              coverArtFileOf(pth.normalizedFile))

SpecPaths == InitPaths /\ [][NextPaths]_vars

\* =============================================================== SpecTool
\* lib/ffmpeg.js: one call of ffmpeg(args) and the events of its child.  Of
\* the two streams the diagnostic one (stderr) is followed; stdout is read by
\* the same code.
MaxChars == 3
Chars == {"a", "b", "nl"}
Texts == UNION {[1..n -> Chars] : n \in 0..MaxChars}
ExitCodes == {0, 1}

\* s.split("\n"): the pieces between newlines, at least one
RECURSIVE Split(_)
Split(s) ==
  IF \A i \in 1..Len(s) : s[i] # "nl" THEN <<s>>
  ELSE LET i == CHOOSE j \in 1..Len(s) : s[j] = "nl" /\ \A k \in 1..(j - 1) : s[k] # "nl"
       IN <<SubSeq(s, 1, i - 1)>> \o Split(SubSeq(s, i + 1, Len(s)))

\* The function lineOrientedReader returns: hands the remainder to the
\* handler unless it is empty, and leaves the remainder as it is.
cleanUp(lines, remainder) == IF remainder = << >> THEN lines ELSE Append(lines, remainder)

\* The promise after resolve() or reject(err): only the first call settles it.
Settle(promise, outcome) == IF promise = "pending" THEN outcome ELSE promise

InitTool ==
  /\ \E text \in Texts, code \in ExitCodes :
       ff = [pc |-> "spawned", emitted |-> text, code |-> code, read |-> 0,
             remainder |-> << >>, stdErr |-> << >>, promise |-> "pending",
             calls |-> << >>, errLines |-> << >>, seenAtSettle |-> << >>]
  /\ NoDocs /\ PipeInit /\ MetaIdle /\ NuIdle /\ PthIdle

ToolUnchanged ==
  UNCHANGED <<docs, pipeVars, mdFile, mdListing, mdResult, mdRead, mdTags, mdArgs,
              mdPc, nu, pth>>

\* stream.on("data"): the next n characters arrive as one chunk.
OnData(n) ==
  /\ ff.pc \in {"spawned", "exited"}
  /\ ff.read + n <= Len(ff.emitted)
  /\ LET chunk == SubSeq(ff.emitted, ff.read + 1, ff.read + n)
         lines == Split(ff.remainder \o chunk)
     IN ff' = [ff EXCEPT !.read = @ + n,
                         !.remainder = lines[Len(lines)],
                         !.stdErr = @ \o SubSeq(lines, 1, Len(lines) - 1)]
  /\ ToolUnchanged

\* p.on("exit"): may come while stream data is still to be read.
OnExit ==
  /\ ff.pc = "spawned"
  /\ LET flushed == cleanUp(ff.stdErr, ff.remainder)
         outcome == IF ff.code # 0 THEN "rejected" ELSE "resolved"
     IN ff' = [ff EXCEPT !.pc = "exited",
                         !.stdErr = flushed,
                         !.promise = Settle(@, outcome),
                         !.calls = Append(@, outcome),
                         !.errLines = IF ff.code # 0 THEN flushed ELSE @,
                         !.seenAtSettle = flushed]
  /\ ToolUnchanged

\* p.on("close"): after exit, when the streams have ended.
OnClose ==
  /\ ff.pc = "exited"
  /\ ff.read = Len(ff.emitted)
  /\ ff' = [ff EXCEPT !.pc = "closed",
                      !.stdErr = cleanUp(@, ff.remainder),
                      !.promise = Settle(@, "resolved"),
                      !.calls = Append(@, "resolved")]
  /\ ToolUnchanged

NextTool ==
  \/ \E n \in 1..MaxChars : OnData(n)
  \/ OnExit
  \/ OnClose

SpecTool == InitTool /\ [][NextTool]_vars

\* ================================================================ claims
\* processFile(t) ran to its end in the current run.
Completed(t) == startSince[t] # "notyet" /\ since[t] = "clean"
Chain == DirsRead(TrackDir)

\* C1: a run over Tracks that a completed run left behind, with neither the
\* Tracks nor the metadata documents changed since, performs no operation at
\* all and raises no error, whatever documents exist.
C1_SecondRunIdle ==
  \A t \in Tracks : (startSince[t] = "clean" /\ faults = 0) =>
     /\ ops[t] = {}
     /\ ~(pc = "ended" /\ cur = t /\ err # "none")

\* C2: when only a metadata document of the ancestry got a newer mtime since
\* the Track was last processed, the next run performs no operation of
\* doNormalization for it, and when processFile ends it has tagged the cached
\* artifact and copied it over the Track.
C2_MetadataOnlyRetag ==
  \A t \in Tracks : startSince[t] = "touched" =>
     /\ ops[t] \cap NormOps = {}
     /\ Completed(t) => {"tag", "rename", "mux", "promote", "utimes"} \subseteq ops[t]

C2_Witness ==
  /\ pc = "ended" /\ err = "none"
  /\ \A t \in Tracks : startSince[t] = "touched" /\ Completed(t)
  /\ \A t \in Tracks : track[t].tags = docs[Cwd].mtime /\ track[t].tags > 1

C4_RegeneratedFromCurrentBytes ==
  \A t \in Tracks : (Completed(t) /\ "encode" \in ops[t]) =>
     /\ cache[t]["normalized"].src = want[t]
     /\ track[t].src = want[t]

\* C5: the file at a Track's path is at every moment a complete file.
C5_TrackNeverPartial == \A t \in Tracks : track[t].whole

\* C6: once processFile has promoted (copyFile, then utimes), the cached
\* normalized artifact is not older than the Track, and as long as nothing is
\* changed needsUpdate(normalizedFile, file) is false.
C6_FreshAfterPromotion ==
  \A t \in Tracks :
     /\ "utimes" \in ops[t] =>
          /\ cache[t]["normalized"].mtime >= track[t].mtime
          /\ NormalizedStale(t) = "false"
     /\ since[t] \in {"clean", "touched"} => NormalizedStale(t) = "false"

C6_Witness ==
  /\ pc = "processFile" /\ runs = 2 /\ cur = "t1"
  /\ since["t1"] = "clean"
  /\ track["t1"].stage = "final"
  /\ cache["t1"]["normalized"].mtime > track["t1"].mtime

\* C7: a directory of the ancestry without a metadata document never makes
\* processFile raise.
C7_MissingDocumentNoError ==
  (faults = 0 /\ \E d \in Chain : ~docs[d].exists) => err # "Invalid argument"

\* ------------------------------------------------------ SpecMeta claims
\* The directories from the boundary down to dir, and the deepest of them
\* whose document defines key k.
BoundaryChain(dir) == {d \in Dirs : IsPrefix(Cwd, d) /\ IsPrefix(d, dir)}
Defines(d, k) == docs[d].exists /\ k \in DOMAIN docs[d].kv
Definers(dir, k) == {d \in BoundaryChain(dir) : Defines(d, k)}
Deepest(dir, k) ==
  CHOOSE d \in Definers(dir, k) : \A e \in Definers(dir, k) : Len(e) <= Len(d)
DeepestWins(keys) ==
  \A k \in keys : Definers(mdFile.dir, k) # {} =>
     /\ k \in DOMAIN mdResult
     /\ mdResult[k] = docs[Deepest(mdFile.dir, k)].kv[k]
UnderBoundary == IsPrefix(Cwd, mdFile.dir)

C9_NothingAboveBoundary ==
  mdPc = "resolved" => \A d \in mdRead : Above(d, Cwd) => ~docs[d].exists

\* C10: with setTrack resolved to false, the tag set and the arguments hold no
\* track, and setTrack is never an argument.
C10_NoTrackWhenDisabled ==
  /\ (mdPc \in {"tags", "args"} /\ ~NumberingOn(mdResult)) => "track" \notin DOMAIN mdTags
  /\ mdPc = "args" =>
       /\ "setTrack" \notin DOMAIN mdArgs
       /\ ~NumberingOn(mdResult) => "track" \notin DOMAIN mdArgs

\* C11: with numbering not disabled, track is "p/n" for the p-th of the n mp3
\* names of the directory in sorted order, disc is the resolved disc or else 1,
\* and title is the filename stem, whatever title or track the documents give.
C11_NumberedAndTitled ==
  mdPc \in {"tags", "args"} =>
     LET mp3s == {f \in mdListing : f.ext = "mp3"}
         p == Cardinality({f \in mp3s : f.stem <= mdFile.name})
     IN /\ {"title"} \cup (DOMAIN mdResult \ {"setTrack", "__mtime"}) \subseteq DOMAIN mdTags
        /\ mdTags["title"] = Title(Mp3(mdFile.name))
        /\ NumberingOn(mdResult) =>
             /\ {"track", "disc"} \subseteq DOMAIN mdTags
             /\ mdTags["track"] = TrackOf(p, Cardinality(mp3s))
             /\ mdTags["disc"] = IF "disc" \in DOMAIN mdResult THEN mdResult["disc"]
                                 ELSE Num(1)
        /\ \A k \in DOMAIN mdResult \ {"title", "track", "disc", "setTrack", "__mtime"} :
             mdTags[k] = mdResult[k]

\* The second of two mp3 files, below documents that define title and track.
C11_Witness ==
  /\ mdPc = "tags" /\ mdFile.name = 2 /\ AllFiles(mdListing) = {Mp3(1), Mp3(2)}
  /\ Defines(Cwd, "title") /\ Defines(AlbumDir, "track") /\ NumberingOn(mdResult)
  /\ mdTags["track"] = TrackOf(2, 2) /\ mdTags["disc"] = Num(1)

\* C12: processFile of a later file of the list begins only when every earlier
\* file was processed to its end without failure, and a failure ends the run:
\* nothing is done for the files after the one that failed.
C12_FailFastInOrder ==
  /\ \A j \in 1..Len(files) :
       (IsMp3(files[j]) /\ (startSince[files[j]] # "notyet" \/ ops[files[j]] # {})) =>
          \A i \in 1..(j - 1) : IsMp3(files[i]) /\ Completed(files[i])
  /\ err # "none" => pc = "ended"
  /\ pc \in {"idle", "ended"} \/ idx \in 1..Len(files)

\* A run ended at its first file, which is not an mp3; the Track after it was
\* processed by an earlier run and is not looked at in this one.
C12_Witness ==
  /\ pc = "ended" /\ err = "Not an MP3 file" /\ idx = 1 /\ Len(files) = 2
  /\ runs = 2 /\ since[files[2]] = "clean"
  /\ startSince[files[2]] = "notyet" /\ ops[files[2]] = {}

\* Positions of the main chain inside updateFileMetadata.
TagWriterPcs == {"tag", "tagRunning", "tagRename", "mux", "muxRunning", "muxRename"}

\* A step taken inside updateFileMetadata leaves the normalized artifacts as
\* they are, or renames the finished temporary file over the current one.
RenameOnlyStep ==
  pc \in TagWriterPcs =>
     /\ \A t \in Tracks : t # cur => cache'[t]["normalized"] = cache[t]["normalized"]
     /\ \/ cache'[cur]["normalized"] = cache[cur]["normalized"]
        \/ /\ pc \in {"tagRename", "muxRename"}
           /\ cache'[cur]["normalized"] = temp
           /\ temp.exists /\ temp.whole = cache[cur]["normalized"].whole
           /\ temp.src = cache[cur]["normalized"].src
           /\ temp.stage = (IF pc = "tagRename" THEN "tagged" ELSE "final")

\* C13: while updateFileMetadata is at work, and when it fails, the file at
\* the normalized artifact's path changes only by a rename of the temporary
\* file, and the temporary file renamed is the finished output of the pass: a
\* pass that has not finished, or has failed, leaves the artifact as it was.
C13_ArtifactReplacedByRenameOnly == [][RenameOnlyStep]_vars

\* The multiplexing pass failed half way: the temporary file is partial, the
\* artifact is the whole output of the first pass.
C13_Witness ==
  /\ pc = "ended" /\ err = "fault"
  /\ temp.exists /\ ~temp.whole /\ temp.stage = "final"
  /\ cache[cur]["normalized"].whole /\ cache[cur]["normalized"].stage = "tagged"

\* C14: the multiplexing pass is started exactly when the Track's cover image
\* is in the cache, and a Track without picture is tagged and promoted by the
\* first pass alone: no tool is started on a cover image that is not there, and
\* when nothing fails from outside no run ends in a failed tool.
C14_CoverPassConditional ==
  /\ pc = "muxRunning" => cache[cur]["cover"].exists
  /\ pc = "tagged" => (cache[cur]["cover"].exists <=> "mux" \in ops[cur])
  /\ faults = 0 => err # "fault"

\* The filesystem operations and tool invocations started and not yet settled.
InFlight ==
  {"createOriginalVersion" : x \in {y \in {pcOrig} : y \in {"stat", "copy"}}}
    \cup {"extractCoverArt" : x \in {y \in {pcCover} : y \in {"spawn", "running"}}}
    \cup {<<"unlink", k>> : k \in unlinks}
    \cup {pc : x \in {y \in {pc} : y \in FaultPoints}}

\* C16: at every moment at most one filesystem operation or tool invocation
\* is pending.
C16_AtMostOneInFlight == Cardinality(InFlight) <= 1

\* C19: when nothing was edited, at the end of processFile(t) the Track holds
\* the bytes of the cache's normalized, tagged and cover-multiplexed artifact,
\* whatever failure an earlier run met.
C19_CompletedTrackIsPromoted ==
  \A t \in Tracks : (Completed(t) /\ edits = 0) =>
     /\ cache[t]["normalized"].whole /\ cache[t]["normalized"].stage = "final"
     /\ track[t].whole
     /\ track[t].src = cache[t]["normalized"].src
     /\ track[t].stage = cache[t]["normalized"].stage
     /\ track[t].tags = cache[t]["normalized"].tags

\* The same, for runs before which no run met a failure.
C19_NoFaultNoEdit == faults = 0 => C19_CompletedTrackIsPromoted

\* C17: with a reference that is a file that exists or a timestamp,
\* needsUpdate is true exactly when the candidate does not exist or is strictly
\* older; with equal times it is false; a stat error other than ENOENT on
\* either path is rethrown.
C17_StaleIffMissingOrOlder ==
  nu.pc = "done" =>
    LET d == nu.dest
        refOk == (d.t = "string" /\ d.stat.code = "ok") \/ d.t = "date"
        refTime == IF d.t = "string" THEN d.stat.mtime ELSE d.v
    IN /\ (refOk /\ nu.file.code \in {"ok", "ENOENT"}) =>
            /\ nu.out \in {"true", "false"}
            /\ nu.out = "true" <=> (nu.file.code = "ENOENT" \/ nu.file.mtime < refTime)
       /\ (refOk /\ nu.file.code = "EACCES") => nu.out = "EACCES"
       /\ (d.t = "string" /\ d.stat.code = "EACCES") => nu.out = "EACCES"

\* Candidate and reference file with the same modification time: fresh.
C17_Witness ==
  /\ nu.pc = "done" /\ nu.dest.t = "string" /\ nu.dest.stat.code = "ok"
  /\ nu.file.code = "ok" /\ nu.file.mtime = nu.dest.stat.mtime /\ nu.file.mtime > 0
  /\ nu.out = "false"

\* C18: for every name ending in .mp3, each cache path is the full stem plus
\* the kind's suffix: the normalized artifact doNormalization writes is the
\* one processFile checks, tags and promotes, and the cover image
\* extractCoverArt writes is the one updateFileMetadata reads.
C18_PathsAgree ==
  pth.pc = "done" =>
    LET stem == SubSeq(pth.name, 1, Len(pth.name) - 1)
    IN /\ pth.normalizedMp3File = pth.normalizedFile
       /\ pth.coverArtFileRead = pth.coverArtFile
       /\ pth.normalizedFile = stem \o <<"normalized", "mp3">>
       /\ pth.originalFile = stem \o <<"original", "mp3">>
       /\ pth.wavFile = stem \o <<"wav">>
       /\ pth.normalizedWavFile = stem \o <<"normalized", "wav">>
       /\ pth.coverArtFile = stem \o <<"cover", "png">>

\* What does hold for every name: the two cover paths agree, and so do all
\* paths of a name whose stem has no dot.
C18_PathsAgreeWithoutDot ==
  pth.pc = "done" =>
    /\ pth.coverArtFileRead = pth.coverArtFile
    /\ Len(pth.name) = 2 => pth.normalizedMp3File = pth.normalizedFile

\* The lines the tool emitted: the pieces between newlines, the unterminated
\* last one included.
LinesOf(text) ==
  LET pieces == Split(text)
  IN IF pieces[Len(pieces)] = << >> THEN SubSeq(pieces, 1, Len(pieces) - 1) ELSE pieces

\* Every line of the text is in lines, at its place.
Carries(lines, text) ==
  /\ Len(LinesOf(text)) <= Len(lines)
  /\ \A i \in 1..Len(LinesOf(text)) : lines[i] = LinesOf(text)[i]

\* The promise is settled by the exit code, by the first call.
C15_OutcomeByExitCode ==
  /\ ff.pc \in {"exited", "closed"} =>
       /\ ff.promise = (IF ff.code # 0 THEN "rejected" ELSE "resolved")
       /\ ff.calls[1] = ff.promise
  /\ ff.pc = "spawned" => ff.promise = "pending"

\* C15: in every order of the data, exit and close events the promise is
\* rejected exactly when the exit code is not 0, and the error of a rejection
\* carries every line the tool emitted on its diagnostic stream.
C15_RejectedIffNonzeroWithAllLines ==
  /\ C15_OutcomeByExitCode
  /\ (ff.pc = "closed" /\ ff.promise = "rejected") => Carries(ff.errLines, ff.emitted)

\* C20: in every chunking and every order of events the handler is given each
\* line once and in order, the unterminated last one included, and all of
\* them before the promise is resolved.
C20_EachLineOnceBeforeResolve ==
  /\ ff.pc = "closed" => ff.stdErr = LinesOf(ff.emitted)
  /\ (ff.pc \in {"exited", "closed"} /\ ff.promise = "resolved") =>
        ff.seenAtSettle = LinesOf(ff.emitted)

\* What does hold: every newline-terminated line is handed over, in order,
\* by the time of close.
C20_TerminatedLinesBeforeClose ==
  ff.pc = "closed" =>
     \A i \in 1..(Len(Split(ff.emitted)) - 1) :
        \E j \in 1..Len(ff.stdErr) : ff.stdErr[j] = Split(ff.emitted)[i]

====
